---- MODULE Spec2Model ----
(***************************************************************************)
(* Directory scanning (DiskMangerWorker) and the listDirectory request     *)
(* handler (GalleryMWs) of pigallery2.                                     *)
(*                                                                         *)
(* A path string is modelled by its split on "/": the string "a//b/" is    *)
(* <<"a", "", "b", "">>, "/" is <<"", "">>, the empty string is <<"">>.    *)
(* Concatenating two strings with a "/" between them is then \o.           *)
(* A nullable value is a sequence of length 0 (null) or 1.                 *)
(***************************************************************************)
EXTENDS Integers, Sequences, FiniteSets, TLC

\* ------------------------------------------------------------------ bounds
MaxEntries == 2
MaxChildEntries == 1
MaxClock == 2
MaxScans == 2
MaxRules == 2
MaxMarkers == 2

\* --------------------------------------------------------- node's path module
sep == <<"", "">>

NULL == <<>>

isAbsolute(p) == Len(p) >= 2 /\ p[1] = ""

hasTrailingSep(p) == Len(p) >= 2 /\ p[Len(p)] = ""

RECURSIVE normalizeString(_, _, _)
normalizeString(segs, allowAboveRoot, res) ==
  IF segs = <<>> THEN res
  ELSE LET s == Head(segs)
           rest == Tail(segs)
       IN IF s = "" \/ s = "." THEN normalizeString(rest, allowAboveRoot, res)
          ELSE IF s = ".."
               THEN IF res # <<>> /\ res[Len(res)] # ".."
                    THEN normalizeString(rest, allowAboveRoot, SubSeq(res, 1, Len(res) - 1))
                    ELSE IF allowAboveRoot
                         THEN normalizeString(rest, allowAboveRoot, Append(res, ".."))
                         ELSE normalizeString(rest, allowAboveRoot, res)
               ELSE normalizeString(rest, allowAboveRoot, Append(res, s))

normalize(p) ==
  IF p = <<"">> THEN <<".">>
  ELSE LET abs == isAbsolute(p)
           res == normalizeString(p, ~abs, <<>>)
       IN IF res = <<>>
          THEN IF abs THEN sep
               ELSE IF hasTrailingSep(p) THEN <<".", "">> ELSE <<".">>
          ELSE (IF abs THEN <<"">> ELSE <<>>) \o res
               \o (IF hasTrailingSep(p) THEN <<"">> ELSE <<>>)

join2(a, b) ==
  LET joined == IF a = <<"">> THEN b ELSE IF b = <<"">> THEN a ELSE a \o b
  IN normalize(joined)

\* index of the last non-empty segment, 0 when there is none
RECURSIVE lastPart(_, _)
lastPart(p, i) == IF i = 0 THEN 0 ELSE IF p[i] # "" THEN i ELSE lastPart(p, i - 1)

dirname(p) ==
  LET k == lastPart(p, Len(p))
  IN IF k <= 1 THEN (IF isAbsolute(p) THEN sep ELSE <<".">>)
     ELSE IF k = 2 /\ p[1] = "" THEN sep
     ELSE IF k = 3 /\ p[1] = "" /\ p[2] = "" THEN <<"", "", "">>
     ELSE SubSeq(p, 1, k - 1)

basename(p) ==
  LET k == lastPart(p, Len(p))
  IN IF k = 0 THEN "" ELSE p[k]

\* ------------------------------------------------------- DiskMangerWorker paths
normalizeDirPath(dirPath) == normalize(join2(<<".", "">>, dirPath))

pathFromRelativeDirName(relativeDirectoryName) ==
  join2(dirname(normalizeDirPath(relativeDirectoryName)), sep)

dirName(dirPath) == IF dirPath = <<"">> THEN "." ELSE basename(dirPath)

\* -------------------------------------------------------------- environment
ImageFolder == <<"", "img">>

RootNames == {"a", "p.jpg", "v.mp4", "w.mp4", "t.gpx"}
ChildNames == {"sub", "p.jpg", ".ignore"}
SubNames == {"p.jpg"}

\* relative directory names a caller asks for: the library root, a
\* subdirectory, a path that is a file or is missing
Requests == {<<"">>, <<"a">>, <<"p.jpg">>}

Range(s) == {s[i] : i \in DOMAIN s}

Listings(names, n) ==
  {l \in UNION {[1..k -> names] : k \in 0..n} :
     \A i, j \in DOMAIN l : i # j => l[i] # l[j]}

\* the directories of the library: node (names below ImageFolder) -> listing
BuildTree(rootL, aL, subL) ==
  LET hasA == "a" \in Range(rootL)
      hasSub == hasA /\ "sub" \in Range(aL)
      nodes == {<<>>} \cup (IF hasA THEN {<<"a">>} ELSE {})
                      \cup (IF hasSub THEN {<<"a", "sub">>} ELSE {})
  IN [n \in nodes |-> IF n = <<>> THEN rootL ELSE IF n = <<"a">> THEN aL ELSE subL]

Settings ==
  [coverOnly : BOOLEAN, noMetaFile : BOOLEAN, noVideo : BOOLEAN,
   noPhoto : BOOLEAN, noDirectory : BOOLEAN, noMetadata : BOOLEAN]

\* mutant: the recursive call is a full scan
CoverOnlySettings_M ==
  [coverOnly |-> FALSE, noMetaFile |-> FALSE, noVideo |-> FALSE,
   noPhoto |-> FALSE, noDirectory |-> FALSE, noMetadata |-> FALSE]

\* lines 167-169: the settings of the recursive call
CoverOnlySettings ==
  [coverOnly |-> TRUE, noMetaFile |-> FALSE, noVideo |-> FALSE,
   noPhoto |-> FALSE, noDirectory |-> FALSE, noMetadata |-> FALSE]

DefaultConfig ==
  [excludeFolderList |-> <<>>, excludeFileList |-> <<>>,
   videoEnabled |-> TRUE, gpx |-> TRUE]

\* the default configuration and the ones that differ from it in one setting
Configs ==
  {DefaultConfig,
   [DefaultConfig EXCEPT !.excludeFolderList = <<<<"a">>>>],
   [DefaultConfig EXCEPT !.excludeFileList = <<<<".ignore">>>>],
   [DefaultConfig EXCEPT !.videoEnabled = FALSE],
   [DefaultConfig EXCEPT !.gpx = FALSE]}

VARIABLES
  tree,      \* the library on disk
  Config,    \* Config.Indexing, Config.Media.Video, Config.MetaFile
  now,       \* Date.now()
  stack,     \* the scanDirectory calls in progress, the innermost last
  io,        \* the filesystem and loader calls of the current top-level scan
  req,       \* the arguments of the top-level scan and the time it started
  outcome,   \* what the last finished top-level scan gave its caller
  prev,      \* what the top-level scan before it gave
  budget,    \* top-level scans the caller may still start
  call,      \* the arguments of the last excludeDir or listDirectory call
  ret,       \* what that call returned
  cache      \* the snapshot the gallery manager has stored for the directory

vars == <<tree, Config, now, stack, io, req, outcome, prev, budget, call, ret, cache>>

pure == <<call, ret, cache>>

\* ----------------------------------------------------------------- fs (node)
\* the node an absolute path names, <<"?">> for a path outside the library
nodeOf(abs) ==
  LET p == IF hasTrailingSep(abs) THEN SubSeq(abs, 1, Len(abs) - 1) ELSE abs
  IN IF Len(p) >= 2 /\ SubSeq(p, 1, 2) = ImageFolder
     THEN SubSeq(p, 3, Len(p)) ELSE <<"?">>

isDirectory(abs) == nodeOf(abs) \in DOMAIN tree

isFile(abs) ==
  LET n == nodeOf(abs)
  IN /\ n \notin DOMAIN tree
     /\ n # <<>>
     /\ ~hasTrailingSep(abs)
     /\ LET parent == SubSeq(n, 1, Len(n) - 1)
        IN parent \in DOMAIN tree /\ n[Len(n)] \in Range(tree[parent])

exists(abs) == isDirectory(abs) \/ isFile(abs)

\* entry e of the directory abs is a directory
isSubdirOf(abs, e) == isDirectory(normalize(join2(abs, <<e>>)))

\* fs.Stats of an existing path
stat(abs) ==
  [isDirectory |-> isDirectory(abs),
   ctime |-> 99 + Len(nodeOf(abs)),
   mtime |-> 100]

readdir(abs) == tree[nodeOf(abs)]

extname(p) ==
  LET b == basename(p)
  IN CASE b \in {"p.jpg", "q.jpg"} -> ".jpg"
       [] b \in {"v.mp4", "w.mp4"} -> ".mp4"
       [] b = "t.gpx" -> ".gpx"
       [] OTHER -> ""

isPhoto(fullPath) == extname(fullPath) \in {".jpg"}

isVideo(fullPath) == extname(fullPath) \in {".mp4"}

isMetaFile(fullPath) == extname(fullPath) \in {".gpx", ".md", ".pg2conf"}

\* MediaDTOUtils.isVideo: by the entry's name
MediaIsVideo(m) == isVideo(<<m.name>>)

Max(a, b) == IF a >= b THEN a ELSE b

\* ---------------------------------------------------------- DiskMangerWorker
calcLastModified(st) == Max(st.ctime, st.mtime)

isEnabledMetaFile(fullPath) ==
  CASE extname(fullPath) = ".gpx" -> Config.gpx
    [] OTHER -> FALSE

\* mutant: a relative rule is compared as written
folderRuleMatches_M(exclude, name, relativeName, absoluteName) ==
  IF isAbsolute(exclude)
  THEN exclude = absoluteName
  ELSE IF Len(exclude) >= 2
       THEN exclude = relativeName
       ELSE exclude = <<name>>

\* lines 64-78: the folder rule `exclude` applies to the candidate
folderRuleMatches(exclude, name, relativeName, absoluteName) ==
  IF isAbsolute(exclude)
  THEN exclude = absoluteName
  ELSE IF Len(exclude) >= 2
       THEN normalize(exclude) = relativeName
       ELSE exclude = <<name>>

\* lines 80-89: the markers are probed in order; a probe that throws is
\* ignored, the first that succeeds returns true
RECURSIVE markerLoop(_, _, _)
markerLoop(list, absoluteName, probes) ==
  IF list = <<>> THEN [excluded |-> FALSE, probes |-> probes]
  ELSE LET p == join2(absoluteName, Head(list))
       IN IF exists(p)
          THEN [excluded |-> TRUE, probes |-> Append(probes, p)]
          ELSE markerLoop(Tail(list), absoluteName, Append(probes, p))

\* mutant: the fast path looks at the folder rules only
excludeDirRun_M(cfg, name, relativeDirectoryName, absDirectoryName) ==
  IF Len(cfg.excludeFolderList) = 0
  THEN [excluded |-> FALSE, probes |-> <<>>]
  ELSE LET absoluteName == normalize(join2(absDirectoryName, <<name>>))
           relativeName == normalize(join2(relativeDirectoryName, <<name>>))
       IN IF \E i \in DOMAIN cfg.excludeFolderList :
               folderRuleMatches(cfg.excludeFolderList[i], name, relativeName, absoluteName)
          THEN [excluded |-> TRUE, probes |-> <<>>]
          ELSE markerLoop(cfg.excludeFileList, absoluteName, <<>>)

\* lines 50-90: the result and the paths probed with fsp.access, in order
excludeDirRun(cfg, name, relativeDirectoryName, absDirectoryName) ==
  IF Len(cfg.excludeFolderList) = 0 /\ Len(cfg.excludeFileList) = 0
  THEN [excluded |-> FALSE, probes |-> <<>>]
  ELSE LET absoluteName == normalize(join2(absDirectoryName, <<name>>))
           relativeName == normalize(join2(relativeDirectoryName, <<name>>))
       IN IF \E i \in DOMAIN cfg.excludeFolderList :
               folderRuleMatches(cfg.excludeFolderList[i], name, relativeName, absoluteName)
          THEN [excluded |-> TRUE, probes |-> <<>>]
          ELSE markerLoop(cfg.excludeFileList, absoluteName, <<>>)

\* mutant: the filter rejects nothing
excludeDir_M(name, relativeDirectoryName, absDirectoryName) ==
  [excluded |-> FALSE, probes |-> <<>>]

excludeDir(name, relativeDirectoryName, absDirectoryName) ==
  excludeDirRun(Config, name, relativeDirectoryName, absDirectoryName)

\* mutant: lastModified is taken from the clock
NewDirectory_M(relativeDirectoryName, st, time) ==
  [name |-> dirName(relativeDirectoryName),
   path |-> pathFromRelativeDirName(relativeDirectoryName),
   lastModified |-> time,
   lastScanned |-> time,
   directories |-> <<>>,
   isPartial |-> FALSE,
   mediaCount |-> 0,
   videoCount |-> 0,
   directoryCount |-> 0,
   cover |-> NULL,
   validCover |-> FALSE,
   media |-> <<>>,
   metaFile |-> <<>>]

\* lines 118-134
NewDirectory(relativeDirectoryName, st, time) ==
  [name |-> dirName(relativeDirectoryName),
   path |-> pathFromRelativeDirName(relativeDirectoryName),
   lastModified |-> calcLastModified(st),
   lastScanned |-> time,
   directories |-> <<>>,
   isPartial |-> FALSE,
   mediaCount |-> 0,
   videoCount |-> 0,
   directoryCount |-> 0,
   cover |-> NULL,
   validCover |-> FALSE,
   media |-> <<>>,
   metaFile |-> <<>>]

NewFrame(relativeDirectoryName, settings) ==
  [relativeDirectoryName |-> normalizeDirPath(relativeDirectoryName),
   settings |-> settings,
   pc |-> "stat",
   directory |-> NULL,
   list |-> <<>>,
   i |-> 0]

\* the directory a call is building
dirOf(f) == f.directory[1]

top == stack[Len(stack)]

absoluteDirectoryName(f) == join2(ImageFolder, f.relativeDirectoryName)

Log(op, p) == io \cup {[op |-> op, path |-> p]}

NoOutcome == [status |-> "none", directory |-> NULL, io |-> {}]

Trees ==
  {BuildTree(rootL, aL, subL) :
     rootL \in Listings(RootNames, MaxEntries),
     aL \in Listings(ChildNames, MaxChildEntries),
     subL \in Listings(SubNames, 1)}

InitWith(n) ==
  /\ tree \in Trees
  /\ Config \in Configs
  /\ now = 1
  /\ stack = <<>>
  /\ io = {}
  /\ req = NULL
  /\ outcome = NoOutcome
  /\ prev = NoOutcome
  /\ budget = n
  /\ call = NULL
  /\ ret = NULL
  /\ cache = NULL

\* one scan of a library
Init == InitWith(1)

\* the same scan repeated, with and without exclusion rules
InitTwice ==
  /\ InitWith(MaxScans)
  /\ Config \in {DefaultConfig, [DefaultConfig EXCEPT !.excludeFileList = <<<<".ignore">>>>]}

\* ------------------------------------------------------------ scanDirectory
\* mutant: the short-circuit also waits for noDirectory
nothingToScan_M(settings) ==
  settings.noPhoto /\ settings.noMetaFile /\ settings.noVideo /\ settings.noDirectory

\* lines 136-141: nothing to scan
nothingToScan(settings) ==
  settings.noPhoto /\ settings.noMetaFile /\ settings.noVideo

\* mutant: the child keeps the lastScanned of its own scan
AsChild_M(d) == [d EXCEPT !.isPartial = TRUE]

\* lines 172-173: the snapshot of a recursive call was not fully scanned
AsChild(d) == [d EXCEPT !.lastScanned = 0, !.isPartial = TRUE]

\* the caller of the innermost call gets directory d (line 165-175 for a
\* recursive call, the caller of the top-level scan otherwise)
Return(d, log) ==
  /\ io' = log
  /\ IF Len(stack) = 1
     THEN /\ stack' = <<>>
          /\ outcome' = [status |-> "ok", directory |-> <<d>>, io |-> log]
     ELSE LET parent == stack[Len(stack) - 1]
              sub == AsChild(d)
              pd == [dirOf(parent) EXCEPT !.directories = Append(@, sub)]
          IN /\ stack' = SubSeq(stack, 1, Len(stack) - 2)
                          \o <<[parent EXCEPT !.directory = <<pd>>, !.i = @ + 1]>>
             /\ outcome' = outcome

\* an exception no frame catches: every call in progress is abandoned
Throw(log) ==
  /\ io' = log
  /\ stack' = <<>>
  /\ outcome' = [status |-> "error", directory |-> NULL, io |-> log]

Continue(f, log) ==
  /\ io' = log
  /\ stack' = [stack EXCEPT ![Len(stack)] = f]
  /\ outcome' = outcome

\* a caller starts a scan; a later scan repeats the first one's arguments
scanDirectory(relativeDirectoryName, settings) ==
  /\ stack = <<>>
  /\ budget > 0
  /\ req # NULL => /\ req[1].rel = relativeDirectoryName
                   /\ req[1].settings = settings
  /\ req' = <<[rel |-> relativeDirectoryName, settings |-> settings, at |-> now]>>
  /\ budget' = budget - 1
  /\ prev' = outcome
  /\ outcome' = NoOutcome
  /\ io' = {}
  /\ stack' = <<NewFrame(relativeDirectoryName, settings)>>
  /\ UNCHANGED <<tree, Config, now, pure>>

\* time passes between two scans
Tick ==
  /\ stack = <<>>
  /\ req # NULL
  /\ now < MaxClock
  /\ now' = now + 1
  /\ UNCHANGED <<tree, Config, stack, io, req, outcome, prev, budget, pure>>

\* lines 115-143: stat the directory, build the empty snapshot, return it
\* when there is nothing to scan
StatDirectory ==
  /\ stack # <<>>
  /\ top.pc = "stat"
  /\ LET abs == absoluteDirectoryName(top)
         log == Log("stat", abs)
         d == NewDirectory(top.relativeDirectoryName, stat(abs), now)
     IN IF ~exists(abs)
        THEN Throw(log)
        ELSE IF nothingToScan(top.settings)
             THEN Return(d, log)
             ELSE Continue([top EXCEPT !.directory = <<d>>, !.pc = "readdir"], log)
  /\ UNCHANGED <<tree, Config, now, req, prev, budget, pure>>

\* line 144
ReadDirectory ==
  /\ stack # <<>>
  /\ top.pc = "readdir"
  /\ LET abs == absoluteDirectoryName(top)
         log == Log("readdir", abs)
     IN IF ~isDirectory(abs)
        THEN Throw(log)
        ELSE Continue([top EXCEPT !.list = readdir(abs), !.i = 1, !.pc = "loop"], log)
  /\ UNCHANGED <<tree, Config, now, req, prev, budget, pure>>

InLoop == stack # <<>> /\ top.pc = "loop" /\ top.i <= Len(top.list)

file == top.list[top.i]

fullFilePath == normalize(join2(absoluteDirectoryName(top), <<file>>))

\* the stat of line 149 fails: the entry was removed after the listing
EntryMissing ==
  /\ InLoop
  /\ ~exists(fullFilePath)
  /\ Throw(Log("stat", fullFilePath))
  /\ UNCHANGED <<tree, Config, now, req, prev, budget, pure>>

\* mutant: a coverOnly scan descends into subdirectories
skipsDirectories_M(settings) == settings.noDirectory

\* lines 152-154: the settings under which no subdirectory is probed
skipsDirectories(settings) == settings.noDirectory \/ settings.coverOnly

\* mutant: a subdirectory is not counted
countDirectory_M(d) == d

\* line 150
countDirectory(d) == [d EXCEPT !.directoryCount = @ + 1]

\* lines 149-175
EntryDirectory ==
  /\ InLoop
  /\ exists(fullFilePath) /\ stat(fullFilePath).isDirectory
  /\ LET abs == absoluteDirectoryName(top)
         f == [top EXCEPT !.directory = <<countDirectory(dirOf(top))>>]
         log == Log("stat", fullFilePath)
     IN IF skipsDirectories(top.settings)
        THEN Continue([f EXCEPT !.i = @ + 1], log)
        ELSE LET ex == excludeDir(file, top.relativeDirectoryName, abs)
                 plog == log \cup {[op |-> "access", path |-> q] : q \in Range(ex.probes)}
             IN IF ex.excluded
                THEN Continue([f EXCEPT !.i = @ + 1], plog)
                ELSE /\ io' = plog
                     /\ outcome' = outcome
                     /\ stack' = [stack EXCEPT ![Len(stack)] = f]
                                  \o <<NewFrame(join2(top.relativeDirectoryName, <<file>>),
                                                CoverOnlySettings)>>
  /\ UNCHANGED <<tree, Config, now, req, prev, budget, pure>>

\* MetadataLoader.loadPhotoMetadata, loadVideoMetadata: the metadata of a file
loadMetadata(p) == <<p>>

\* the media entry of lines 181-188 and 215-222
MediaEntry(name, p, settings) ==
  [name |-> name,
   directory |-> NULL,
   metadata |-> IF settings.noMetadata THEN NULL ELSE loadMetadata(p)]

\* the calls of a metadata load that succeeded (ok) or threw
LoadLog(log, p, settings, ok) ==
  IF settings.noMetadata THEN log
  ELSE log \cup {[op |-> IF ok THEN "load" ELSE "loadFailed", path |-> p]}

\* mutant: the snapshot that gets a cover is marked validCover
AddPhoto_M(d, photo) ==
  [d EXCEPT !.cover = IF d.cover = NULL
                      THEN <<[photo EXCEPT !.directory =
                                <<[path |-> d.path, name |-> d.name]>>]>>
                      ELSE @,
            !.validCover = TRUE,
            !.media = Append(@, photo)]

\* lines 190-201
AddPhoto(d, photo) ==
  [d EXCEPT !.cover = IF d.cover = NULL
                      THEN <<[photo EXCEPT !.directory =
                                <<[path |-> d.path, name |-> d.name]>>]>>
                      ELSE @,
            !.media = Append(@, photo)]

\* mutant: the loop goes on after the photo
afterPhoto_M(f) == f.i + 1

\* lines 203-205: where the loop goes on after a photo was added
afterPhoto(f) == IF f.settings.coverOnly THEN Len(f.list) + 1 ELSE f.i + 1

\* lines 176-205; the metadata load succeeds or throws
EntryPhoto ==
  /\ InLoop
  /\ exists(fullFilePath) /\ ~stat(fullFilePath).isDirectory
  /\ isPhoto(fullFilePath)
  /\ LET log == Log("stat", fullFilePath)
         st == top.settings
     IN IF st.noPhoto
        THEN Continue([top EXCEPT !.i = @ + 1], log)
        ELSE \E ok \in (IF st.noMetadata THEN {TRUE} ELSE BOOLEAN) :
               IF ~ok
               THEN Throw(LoadLog(log, fullFilePath, st, FALSE))
               ELSE Continue([top EXCEPT
                                !.directory = <<AddPhoto(dirOf(top),
                                                 MediaEntry(file, fullFilePath, st))>>,
                                !.i = afterPhoto(top)],
                             LoadLog(log, fullFilePath, st, TRUE))
  /\ UNCHANGED <<tree, Config, now, req, prev, budget, pure>>

\* mutant: a video becomes the cover of a snapshot that has none
AddVideo_M(d, video) ==
  [d EXCEPT !.cover = IF d.cover = NULL
                      THEN <<[video EXCEPT !.directory =
                                <<[path |-> d.path, name |-> d.name]>>]>>
                      ELSE @,
            !.media = Append(@, video)]

\* lines 215-222
AddVideo(d, video) == [d EXCEPT !.media = Append(@, video)]

\* mutant: the failure of a video load is not caught
SkipVideo_M(f) ==
  Throw(LoadLog(Log("stat", fullFilePath), fullFilePath, f.settings, FALSE))

\* lines 223-230: the failing video is logged and skipped
SkipVideo(f) == Continue([f EXCEPT !.i = @ + 1],
                         LoadLog(Log("stat", fullFilePath), fullFilePath, f.settings, FALSE))

\* lines 206-230; the metadata load succeeds or throws
EntryVideo ==
  /\ InLoop
  /\ exists(fullFilePath) /\ ~stat(fullFilePath).isDirectory
  /\ ~isPhoto(fullFilePath) /\ isVideo(fullFilePath)
  /\ LET log == Log("stat", fullFilePath)
         st == top.settings
     IN IF ~Config.videoEnabled \/ st.noVideo \/ st.coverOnly
        THEN Continue([top EXCEPT !.i = @ + 1], log)
        ELSE \E ok \in (IF st.noMetadata THEN {TRUE} ELSE BOOLEAN) :
               IF ~ok
               THEN SkipVideo(top)
               ELSE Continue([top EXCEPT
                                !.directory = <<AddVideo(dirOf(top),
                                                 MediaEntry(file, fullFilePath, st))>>,
                                !.i = @ + 1],
                             LoadLog(log, fullFilePath, st, TRUE))
  /\ UNCHANGED <<tree, Config, now, req, prev, budget, pure>>

\* lines 231-243
EntryMetaFile ==
  /\ InLoop
  /\ exists(fullFilePath) /\ ~stat(fullFilePath).isDirectory
  /\ ~isPhoto(fullFilePath) /\ ~isVideo(fullFilePath) /\ isMetaFile(fullFilePath)
  /\ LET log == Log("stat", fullFilePath)
         d == dirOf(top)
     IN IF ~isEnabledMetaFile(fullFilePath) \/ top.settings.noMetaFile
           \/ top.settings.coverOnly
        THEN Continue([top EXCEPT !.i = @ + 1], log)
        ELSE Continue([top EXCEPT
                         !.directory = <<[d EXCEPT !.metaFile =
                                            Append(@, [name |-> file, directory |-> NULL])]>>,
                         !.i = @ + 1], log)
  /\ UNCHANGED <<tree, Config, now, req, prev, budget, pure>>

\* an entry of no recognised format
EntryOther ==
  /\ InLoop
  /\ exists(fullFilePath) /\ ~stat(fullFilePath).isDirectory
  /\ ~isPhoto(fullFilePath) /\ ~isVideo(fullFilePath) /\ ~isMetaFile(fullFilePath)
  /\ Continue([top EXCEPT !.i = @ + 1], Log("stat", fullFilePath))
  /\ UNCHANGED <<tree, Config, now, req, prev, budget, pure>>

RECURSIVE countVideos(_)
countVideos(media) ==
  IF media = <<>> THEN 0
  ELSE (IF MediaIsVideo(Head(media)) THEN 1 ELSE 0) + countVideos(Tail(media))

\* mutant: videoCount is left as initialised
Counted_M(d) == [d EXCEPT !.mediaCount = Len(d.media)]

\* lines 246-248
Counted(d) ==
  [d EXCEPT !.mediaCount = Len(d.media), !.videoCount = countVideos(d.media)]

LoopEnd ==
  /\ stack # <<>>
  /\ top.pc = "loop"
  /\ top.i > Len(top.list)
  /\ Return(Counted(dirOf(top)), io)
  /\ UNCHANGED <<tree, Config, now, req, prev, budget, pure>>

Next ==
  \/ \E rel \in Requests, settings \in Settings : scanDirectory(rel, settings)
  \/ Tick
  \/ StatDirectory
  \/ ReadDirectory
  \/ EntryDirectory
  \/ EntryPhoto
  \/ EntryVideo
  \/ EntryMetaFile
  \/ EntryOther
  \/ LoopEnd

Spec == Init /\ [][Next]_vars

SpecTwice == InitTwice /\ [][Next]_vars

\* a step of the scan in progress
Step ==
  \/ StatDirectory
  \/ ReadDirectory
  \/ EntryDirectory
  \/ EntryPhoto
  \/ EntryVideo
  \/ EntryMetaFile
  \/ EntryOther
  \/ LoopEnd

\* the guards of Step: a call in progress is at its stat, at its readdir, past
\* the last entry, or at an entry that can be stat-ed
canStep ==
  /\ stack # <<>>
  /\ \/ top.pc \in {"stat", "readdir"}
     \/ top.pc = "loop" /\ top.i > Len(top.list)
     \/ InLoop /\ exists(fullFilePath)

\* a scan in progress is not suspended for ever, each of its awaits settles:
\* weak fairness of Step, with ENABLED <<Step>>_vars written out as canStep
Fairness == []<>(~canStep) \/ []<><<Step>>_vars

SpecLive == Init /\ [][Next]_vars /\ Fairness

\* lines 92-101: the metadata-free variant forces noMetadata and scans
scanDirectoryNoMetadata(relativeDirectoryName, settings) ==
  scanDirectory(relativeDirectoryName, [settings EXCEPT !.noMetadata = TRUE])

NextNoMetadata ==
  \/ \E rel \in Requests, settings \in Settings : scanDirectoryNoMetadata(rel, settings)
  \/ Tick
  \/ StatDirectory
  \/ ReadDirectory
  \/ EntryDirectory
  \/ EntryPhoto
  \/ EntryVideo
  \/ EntryMetaFile
  \/ EntryOther
  \/ LoopEnd

\* one call of the metadata-free variant
SpecNoMetadata == Init /\ [][NextNoMetadata]_vars

\* another process removes an entry of the library while a scan runs
Unlink ==
  /\ stack # <<>>
  /\ \E n \in DOMAIN tree : \E i \in DOMAIN tree[n] :
       LET gone == Append(n, tree[n][i])
           left == {m \in DOMAIN tree :
                      ~(Len(m) >= Len(gone) /\ SubSeq(m, 1, Len(gone)) = gone)}
       IN tree' = [m \in left |->
                     IF m = n
                     THEN SubSeq(tree[n], 1, i - 1) \o SubSeq(tree[n], i + 1, Len(tree[n]))
                     ELSE tree[m]]
  /\ UNCHANGED <<Config, now, stack, io, req, outcome, prev, budget, pure>>

InitConc == InitWith(1) /\ Config = DefaultConfig

NextConc == Next \/ Unlink \/ EntryMissing

\* one scan of a library that changes under it
SpecConc == InitConc /\ [][NextConc]_vars

\* ---------------------------------------------------------------- excludeDir
\* folder rules: absolute, relative (also unnormalised) and bare names
FolderRules ==
  {<<"", "img", "a">>, <<"", "img", "a", "sub">>, <<"a", "sub">>,
   <<"a", "", "sub">>, <<".", "a">>, <<"a">>, <<"sub">>}

Markers == {<<".ignore">>, <<".nomedia">>}

MarkerNames == {m[1] : m \in Markers}

ExcludeDirs == {<<"">>, <<"a">>}

InitExclude ==
  /\ \E aL \in Listings({"sub"} \cup MarkerNames, MaxMarkers),
        subL \in Listings({".ignore"}, 1) :
       tree = BuildTree(<<"a">>, aL, subL)
  /\ \E fl \in Listings(FolderRules, MaxRules), ml \in Listings(Markers, MaxMarkers) :
       Config = [DefaultConfig EXCEPT !.excludeFolderList = fl, !.excludeFileList = ml]
  /\ now = 1
  /\ stack = <<>>
  /\ io = {}
  /\ req = NULL
  /\ outcome = NoOutcome
  /\ prev = NoOutcome
  /\ budget = 0
  /\ call = NULL
  /\ ret = NULL
  /\ cache = NULL

\* excludeDir is called as scanDirectory calls it, for entry `name` of dirPath
CallExcludeDir(name, dirPath) ==
  LET relativeDirectoryName == normalizeDirPath(dirPath)
      absDirectoryName == join2(ImageFolder, relativeDirectoryName)
  IN /\ call' = <<[name |-> name, dirPath |-> dirPath]>>
     /\ ret' = <<excludeDir(name, relativeDirectoryName, absDirectoryName)>>
     /\ UNCHANGED <<tree, Config, now, stack, io, req, outcome, prev, budget, cache>>

NextExclude ==
  \E name \in {"a", "sub"}, dirPath \in ExcludeDirs : CallExcludeDir(name, dirPath)

SpecExclude == InitExclude /\ [][NextExclude]_vars

\* ------------------------------------------------------ GalleryMWs.listDirectory
\* a query parameter is a string of characters, absent when NULL
Digits == <<"0", "1", "2", "3", "4", "5", "6", "7", "8", "9">>

isDigit(c) == \E i \in DOMAIN Digits : Digits[i] = c

digitValue(c) == (CHOOSE i \in DOMAIN Digits : Digits[i] = c) - 1

\* the value of the leading digits of str, after the digits read so far
RECURSIVE parseDigits(_, _)
parseDigits(str, acc) ==
  IF str = <<>> \/ ~isDigit(Head(str)) THEN acc
  ELSE parseDigits(Tail(str), acc * 10 + digitValue(Head(str)))

NaN == NULL

\* parseInt(str, 10): NaN for an absent parameter or one without leading digit
parseInt(param) ==
  IF param = NULL \/ param[1] = <<>> \/ ~isDigit(Head(param[1])) THEN NaN
  ELSE <<parseDigits(param[1], 0)>>

\* mutant: the two known values are passed in the wrong order
managerArgs_M(query) ==
  [knownLastModified |-> parseInt(query.knownLastScanned),
   knownLastScanned |-> parseInt(query.knownLastModified)]

\* lines 178-186: the arguments the handler passes to the gallery manager
managerArgs(query) ==
  [knownLastModified |-> parseInt(query.knownLastModified),
   knownLastScanned |-> parseInt(query.knownLastScanned)]

ContentWrapper(directory, searchResult, notModified) ==
  [directory |-> directory, searchResult |-> searchResult, notModified |-> notModified]

\* UserDTOUtils.isDirectoryAvailable
isDirectoryAvailable(d, permissions) ==
  \E i \in DOMAIN permissions : permissions[i] = <<"", d.name>>

\* mutant: a directory is taken for not modified and null for content
resultPipeOf_M(directory, permissions) ==
  IF directory # NULL
  THEN ContentWrapper(NULL, NULL, <<TRUE>>)
  ELSE ContentWrapper(directory, NULL, NULL)

\* lines 189-203: what the handler puts in the result pipe
resultPipeOf(directory, permissions) ==
  IF directory = NULL
  THEN ContentWrapper(NULL, NULL, <<TRUE>>)
  ELSE LET d == directory[1]
           filtered ==
             IF Len(permissions) > 0 /\ permissions[1] # <<"", "*">>
             THEN [d EXCEPT !.directories =
                              SelectSeq(@, LAMBDA c : isDirectoryAvailable(c, permissions))]
             ELSE d
       IN ContentWrapper(<<filtered>>, NULL, NULL)

\* the freshness gate: the cached snapshot answers the request
resolve(cached, knownLastModified, knownLastScanned) ==
  IF /\ cached # NULL
     /\ ~cached[1].isPartial
     /\ knownLastModified # NaN /\ knownLastScanned # NaN
     /\ cached[1].lastModified = knownLastModified[1]
     /\ cached[1].lastScanned >= knownLastScanned[1]
  THEN "NotModified" ELSE "NeedsRescan"

\* the snapshots the gallery manager may hold for the directory: none, a
\* partial one left by the scan of the parent, a full one
CachedTimes == {150, 200}

Cached ==
  {NULL}
  \cup {<<AsChild(NewDirectory(<<"">>, [ctime |-> m, mtime |-> m], 0))>> : m \in {99, 100}}
  \cup {<<NewDirectory(<<"">>, [ctime |-> m, mtime |-> m], t)>> :
          m \in {99, 100}, t \in CachedTimes}

Param(str) == <<str>>

KnownModified == {NULL, Param(<<"9", "9">>), Param(<<"1", "0", "0">>)}

KnownScanned ==
  {NULL, Param(<<"x">>), Param(<<"1", "5", "0">>), Param(<<"2", "0", "0">>),
   Param(<<"3", "0", "0">>)}

Permissions == {<<<<"", "*">>>>, <<<<"", "b">>>>}

InitGate ==
  /\ tree \in {BuildTree(<<>>, <<>>, <<>>), BuildTree(<<"p.jpg">>, <<>>, <<>>),
               BuildTree(<<"a">>, <<>>, <<>>)}
  /\ Config = DefaultConfig
  /\ now \in {200, 300}
  /\ stack = <<>>
  /\ io = {}
  /\ req = NULL
  /\ outcome = NoOutcome
  /\ prev = NoOutcome
  /\ budget = 0
  /\ call = NULL
  /\ ret = NULL
  /\ cache \in Cached

\* what the handler hands to next(), and what the gallery manager gave it
Result(resultPipe, error, manager) ==
  [resultPipe |-> resultPipe, error |-> error, manager |-> manager]

\* mutant: a path that is no directory is reported as an error
NoResult_M == Result(NULL, <<"GENERAL_ERROR">>, "notCalled")

\* lines 167-173: next() with nothing in the result pipe
NoResult == Result(NULL, NULL, "notCalled")

\* GalleryManager.listDirectory: null when the gate answers NotModified, else
\* the directory is scanned again, the cache replaced and the snapshot returned
ManagerListDirectory(directoryName, args, permissions, scanFails) ==
  IF resolve(cache, args.knownLastModified, args.knownLastScanned) = "NotModified"
  THEN /\ cache' = cache
       /\ ret' = <<Result(<<resultPipeOf(NULL, permissions)>>, NULL, "null")>>
  ELSE IF scanFails
       THEN /\ cache' = cache
            /\ ret' = <<Result(NULL, <<"GENERAL_ERROR">>, "threw")>>
       ELSE LET abs == join2(ImageFolder, directoryName)
                subdirs == SelectSeq(readdir(abs), LAMBDA e : isSubdirOf(abs, e))
                fresh == [NewDirectory(directoryName, stat(abs), now)
                            EXCEPT !.directories =
                              [i \in 1..Len(subdirs) |->
                                 AsChild(NewDirectory(
                                   <<subdirs[i]>>,
                                   stat(normalize(join2(abs, <<subdirs[i]>>))), now))]]
            IN /\ cache' = <<fresh>>
               /\ ret' = <<Result(<<resultPipeOf(<<fresh>>, permissions)>>, NULL,
                                   "directory")>>

\* lines 157-213
listDirectory(param, query, permissions, scanFails) ==
  LET directoryName == IF param = NULL \/ param = <<"">> THEN sep ELSE param
      abs == join2(ImageFolder, directoryName)
  IN /\ call' = <<[directory |-> param, query |-> query, cached |-> cache]>>
     /\ IF ~exists(abs) \/ ~stat(abs).isDirectory
        THEN /\ ret' = <<NoResult>>
             /\ cache' = cache
        ELSE ManagerListDirectory(directoryName, managerArgs(query), permissions, scanFails)
     /\ UNCHANGED <<tree, Config, now, stack, io, req, outcome, prev, budget>>

NextGate ==
  \E param \in {NULL, <<"p.jpg">>, <<"zz">>},
     klm \in KnownModified, kls \in KnownScanned,
     permissions \in Permissions, scanFails \in BOOLEAN :
    listDirectory(param, [knownLastModified |-> klm, knownLastScanned |-> kls],
                  permissions, scanFails)

SpecGate == InitGate /\ [][NextGate]_vars

\* ---------------------------------------------------------------- properties
Ok == stack = <<>> /\ outcome.status = "ok"

root == outcome.directory[1]

reqSettings == req[1].settings

reqAbs == join2(ImageFolder, normalizeDirPath(req[1].rel))

reqNode == nodeOf(reqAbs)

\* every snapshot of the tree below and including d
RECURSIVE snapshotsOf(_)
snapshotsOf(d) ==
  {d} \cup UNION {snapshotsOf(d.directories[i]) : i \in DOMAIN d.directories}

\* the snapshots that sit in some directories list of the tree of d
childSnapshots(d) == UNION {snapshotsOf(d.directories[i]) : i \in DOMAIN d.directories}

isSubdir(n, name) == Append(n, name) \in DOMAIN tree

onlySubdirs(n) == \A i \in DOMAIN tree[n] : isSubdir(n, tree[n][i])

\* the positions of the photos directly inside directory n
photosIn(n) ==
  {i \in DOMAIN tree[n] : ~isSubdir(n, tree[n][i]) /\ isPhoto(<<tree[n][i]>>)}

Least(S) == CHOOSE i \in S : \A j \in S : i <= j

Failed(log) == {e \in log : e.op = "loadFailed"}

\* C1: with noPhoto, noMetaFile and noVideo all set, a scan performs no
\* readdir at any point, and the scan of a directory returns a snapshot with
\* empty media and metaFile lists and mediaCount = 0.
C1_NothingToScan ==
  (req # NULL /\ reqSettings.noPhoto /\ reqSettings.noMetaFile /\ reqSettings.noVideo) =>
    /\ \A e \in io : e.op # "readdir"
    /\ (stack = <<>> /\ isDirectory(reqAbs)) =>
         /\ outcome.status = "ok"
         /\ root.media = <<>>
         /\ root.metaFile = <<>>
         /\ root.mediaCount = 0

C1_Witness ==
  /\ Ok
  /\ reqSettings.noPhoto /\ reqSettings.noMetaFile /\ reqSettings.noVideo
  /\ req[1].rel = <<"">>
  /\ {"p.jpg", "a"} \subseteq Range(tree[<<>>])
  /\ root.media = <<>> /\ root.directoryCount = 0

\* the directories below n
descendants(n) ==
  {m \in DOMAIN tree : Len(m) > Len(n) /\ SubSeq(m, 1, Len(n)) = n}

AllDefault ==
  /\ Config = DefaultConfig
  /\ reqSettings = [CoverOnlySettings EXCEPT !.coverOnly = FALSE]

\* C2 as stated: a root holding only subdirectories, one descendant of which
\* (at any depth) holds a single photo, gets that photo as its cover, and
\* every snapshot below the root is partial with lastScanned = 0.
C2_CoverReachesRoot ==
  (/\ Ok /\ AllDefault
   /\ reqNode \in DOMAIN tree
   /\ onlySubdirs(reqNode)
   /\ \E m \in descendants(reqNode) :
        /\ Cardinality(photosIn(m)) = 1
        /\ \A k \in descendants(reqNode) \ {m} : photosIn(k) = {})
  => /\ root.cover # NULL
     /\ \A m \in descendants(reqNode) :
          photosIn(m) # {} => root.cover[1].name = tree[m][Least(photosIn(m))]
     /\ \A c \in childSnapshots(root) : c.isPartial /\ c.lastScanned = 0

\* C2 amended: the cover probe is one level deep. A root holding only
\* subdirectories has no cover; each child snapshot is partial with
\* lastScanned = 0 and no children, and its cover is the first photo directly
\* inside that subdirectory, null when there is none directly inside.
C2_CoverOneLevel ==
  (Ok /\ reqNode \in DOMAIN tree /\ onlySubdirs(reqNode)) =>
    /\ root.cover = NULL
    /\ root.media = <<>>
    /\ \A i \in DOMAIN root.directories :
         LET c == root.directories[i]
             n == Append(reqNode, c.name)
         IN /\ n \in DOMAIN tree
            /\ c.isPartial /\ c.lastScanned = 0
            /\ c.directories = <<>>
            /\ IF photosIn(n) = {} THEN c.cover = NULL
               ELSE /\ c.cover # NULL
                    /\ c.cover[1].name = tree[n][Least(photosIn(n))]

C2_Witness ==
  /\ Ok /\ AllDefault
  /\ req[1].rel = <<"">>
  /\ tree[<<>>] = <<"a">>
  /\ <<"a", "sub">> \in DOMAIN tree
  /\ tree[<<"a", "sub">>] = <<"p.jpg">>
  /\ Len(root.directories) = 1
  /\ root.directories[1].cover = NULL
  /\ root.cover = NULL

\* the names a full scan of listing l keeps as media, in listing order: the
\* photos and videos the settings allow whose metadata load did not fail
keptMedia(n, settings, log) ==
  LET abs(name) == normalize(join2(reqAbs, <<name>>))
      keep(name) ==
        /\ ~isSubdir(n, name)
        /\ [op |-> "loadFailed", path |-> abs(name)] \notin log
        /\ \/ isPhoto(<<name>>) /\ ~settings.noPhoto
           \/ isVideo(<<name>>) /\ ~settings.noVideo /\ Config.videoEnabled
  IN SelectSeq(tree[n], keep)

names(media) == [i \in DOMAIN media |-> media[i].name]

\* C6: a video whose metadata load throws is skipped and never fails the
\* scan: a failed scan of a directory is always due to a photo, and in a
\* finished scan with a failed video the media list is the listing without
\* the failing videos, videoCount counting the videos that loaded.
C6_VideoFailureIsolated ==
  /\ (stack = <<>> /\ outcome.status = "error" /\ isDirectory(reqAbs)) =>
       \E e \in Failed(outcome.io) : isPhoto(e.path)
  /\ (Ok /\ ~reqSettings.coverOnly /\ \E e \in Failed(outcome.io) : isVideo(e.path)) =>
       /\ \A e \in Failed(outcome.io) : \A i \in DOMAIN root.media :
            root.media[i].name # basename(e.path)
       /\ names(root.media) = keptMedia(reqNode, reqSettings, outcome.io)
       /\ root.videoCount =
            Cardinality({e \in outcome.io : e.op = "load" /\ isVideo(e.path)})

C6_Witness ==
  /\ Ok
  /\ tree[<<>>] = <<"w.mp4", "v.mp4">>
  /\ req[1].rel = <<"">>
  /\ [op |-> "loadFailed", path |-> <<"", "img", "w.mp4">>] \in outcome.io
  /\ names(root.media) = <<"v.mp4">>
  /\ root.videoCount = 1

\* C9: in every snapshot a scan returns, the root and every child, mediaCount
\* is the length of the media list and videoCount the number of its videos.
C9_CountsMatchMedia ==
  Ok => \A d \in snapshotsOf(root) :
          /\ d.mediaCount = Len(d.media)
          /\ d.videoCount =
               Cardinality({i \in DOMAIN d.media : isVideo(<<d.media[i].name>>)})

C9_Witness ==
  /\ Ok
  /\ root.videoCount = 1 /\ root.mediaCount = 1
  /\ \E c \in childSnapshots(root) : c.mediaCount = 1 /\ c.videoCount = 0

\* C10: every snapshot in a directories list is partial with lastScanned = 0;
\* the root is not partial and its lastScanned is the time of the scan; so
\* isPartial holds exactly for the snapshots with lastScanned = 0.
C10_PartialIffUnscanned ==
  Ok => /\ \A c \in childSnapshots(root) : c.isPartial /\ c.lastScanned = 0
        /\ ~root.isPartial
        /\ root.lastScanned = req[1].at
        /\ \A d \in snapshotsOf(root) : d.isPartial <=> d.lastScanned = 0

C10_Witness ==
  /\ Ok
  /\ Len(root.directories) = 1
  /\ root.directories[1].isPartial
  /\ root.lastScanned > 0

\* C8: a scan repeated on the unchanged library with the same settings and
\* the same metadata-loader results returns a snapshot equal to the first in
\* every field except the root's lastScanned, which does not decrease.
C8_Idempotent ==
  (/\ Ok /\ prev.status = "ok"
   /\ Failed(prev.io) = Failed(outcome.io))
  => LET first == prev.directory[1]
     IN /\ [root EXCEPT !.lastScanned = 0] = [first EXCEPT !.lastScanned = 0]
        /\ root.lastScanned >= first.lastScanned

C8_Witness ==
  /\ Ok /\ prev.status = "ok"
  /\ Failed(prev.io) = Failed(outcome.io)
  /\ root.lastScanned > prev.directory[1].lastScanned
  /\ root.mediaCount = 1
  /\ Len(root.directories) = 1
  /\ root.directories[1].cover # NULL

\* the candidate of the last excludeDir call: its place below the library
\* root, its path relative to the root and its absolute path
candNode ==
  (IF call[1].dirPath = <<"">> THEN <<>> ELSE call[1].dirPath) \o <<call[1].name>>

candRel == candNode

candAbs == ImageFolder \o candNode

startsWithSep(rule) == Len(rule) >= 2 /\ rule[1] = ""

containsSep(rule) == Len(rule) >= 2

hasMarker ==
  /\ candNode \in DOMAIN tree
  /\ \E i \in DOMAIN Config.excludeFileList :
       Config.excludeFileList[i][1] \in Range(tree[candNode])

\* a folder rule matches as C3 states it
statedMatch(rule) ==
  IF startsWithSep(rule) THEN rule = candAbs
  ELSE IF containsSep(rule) THEN rule = candRel
  ELSE rule = <<call[1].name>>

\* a folder rule matches as amended: a relative rule is normalised first
amendedMatch(rule) ==
  IF startsWithSep(rule) THEN rule = candAbs
  ELSE IF containsSep(rule) THEN normalize(rule) = candRel
  ELSE rule = <<call[1].name>>

someRule(match(_)) ==
  \E i \in DOMAIN Config.excludeFolderList : match(Config.excludeFolderList[i])

\* C3 as stated: an absolute rule matches only the equal absolute path, a
\* relative rule only the equal relative path, a bare rule any equal leaf
\* name; a candidate no rule matches and without marker file is not excluded.
C3_ExactRuleMatch ==
  ret # NULL => (ret[1].excluded <=> (someRule(statedMatch) \/ hasMarker))

\* C3 amended: as stated, except that a relative rule matches when its
\* normalised form (path.normalize) equals the candidate's relative path.
C3_NormalisedRuleMatch ==
  ret # NULL => (ret[1].excluded <=> (someRule(amendedMatch) \/ hasMarker))

C3_Witness ==
  /\ ret # NULL
  /\ call[1] = [name |-> "sub", dirPath |-> <<"a">>]
  /\ Config.excludeFolderList = <<<<"", "img", "a">>, <<"a", "", "sub">>>>
  /\ ~hasMarker
  /\ ret[1].excluded

\* the markers excludeDir has to probe: the list up to its first existing one
RECURSIVE probedMarkers(_)
probedMarkers(list) ==
  IF list = <<>> THEN <<>>
  ELSE IF candNode \in DOMAIN tree /\ Head(list)[1] \in Range(tree[candNode])
       THEN <<candAbs \o Head(list)>>
       ELSE <<candAbs \o Head(list)>> \o probedMarkers(Tail(list))

\* C7: a candidate holding a listed marker file is excluded whatever the
\* folder rules, also with none; a probe of a missing marker counts as
\* absent and the call still answers; the first marker found ends the probing.
C7_MarkerExclusion ==
  ret # NULL =>
    /\ hasMarker => ret[1].excluded
    /\ ~someRule(amendedMatch) =>
         /\ ret[1].excluded <=> hasMarker
         /\ ret[1].probes = probedMarkers(Config.excludeFileList)
    /\ \A i \in DOMAIN ret[1].probes :
         exists(ret[1].probes[i]) => i = Len(ret[1].probes) /\ ret[1].excluded

C7_Witness ==
  /\ ret # NULL
  /\ call[1] = [name |-> "a", dirPath |-> <<"">>]
  /\ Config.excludeFolderList = <<>>
  /\ Config.excludeFileList = <<<<".ignore">>, <<".nomedia">>>>
  /\ tree[<<"a">>] = <<".nomedia">>
  /\ Len(ret[1].probes) = 2
  /\ ret[1].excluded

\* the request of the handler, its parsed known pair, the snapshot that was
\* cached when it arrived and what it handed on
knownPair ==
  <<parseInt(call[1].query.knownLastModified), parseInt(call[1].query.knownLastScanned)>>

cachedBefore == call[1].cached

answered == call # NULL /\ ret # NULL /\ ret[1].resultPipe # NULL

answer == ret[1].resultPipe[1]

NotModified == answer.notModified = <<TRUE>> /\ answer.directory = NULL

NeedsRescan ==
  /\ answer.notModified = NULL
  /\ answer.directory # NULL
  /\ ~answer.directory[1].isPartial
  /\ answer.directory[1].lastScanned = now
  /\ cache # NULL
  /\ cache[1].lastScanned = now
  /\ ~cache[1].isPartial

gateHolds ==
  /\ cachedBefore # NULL
  /\ ~cachedBefore[1].isPartial
  /\ knownPair[1] # NaN
  /\ knownPair[2] # NaN
  /\ cachedBefore[1].lastModified = knownPair[1][1]
  /\ cachedBefore[1].lastScanned >= knownPair[2][1]

cachedIs(m, t) ==
  /\ cachedBefore # NULL
  /\ ~cachedBefore[1].isPartial
  /\ cachedBefore[1].lastModified = m
  /\ cachedBefore[1].lastScanned = t

knownIs(m, t) == knownPair = << <<m>>, <<t>> >>

photoEntries(media) == {i \in DOMAIN media : isPhoto(<<media[i].name>>)}

\* C11 as stated: the first media entry of a snapshot, photo or video, is its
\* cover: a cover is also an entry of media, and when media is not empty the
\* cover carries the name of its first entry.
C11_FirstMediaIsCover ==
  Ok => \A d \in snapshotsOf(root) :
          /\ d.cover # NULL => \E i \in DOMAIN d.media : d.media[i].name = d.cover[1].name
          /\ d.media # <<>> => d.cover # NULL /\ d.cover[1].name = d.media[1].name

\* C11 amended: only a photo becomes the cover. A cover is also an entry of
\* media; the cover carries the name and metadata of the first photo of media
\* and is null when media holds no photo. In the scanned directory that is
\* the first photo in listing order, when the settings allow photos.
C11_FirstPhotoIsCover ==
  Ok => /\ \A d \in snapshotsOf(root) :
             /\ d.cover # NULL =>
                  \E i \in DOMAIN d.media : d.media[i].name = d.cover[1].name
             /\ IF photoEntries(d.media) = {} THEN d.cover = NULL
                ELSE /\ d.cover # NULL
                     /\ d.cover[1].name = d.media[Least(photoEntries(d.media))].name
                     /\ d.cover[1].metadata = d.media[Least(photoEntries(d.media))].metadata
        /\ (~reqSettings.noPhoto /\ photosIn(reqNode) # {}) =>
             /\ root.cover # NULL
             /\ root.cover[1].name = tree[reqNode][Least(photosIn(reqNode))]

C11_Witness ==
  /\ Ok
  /\ names(root.media) = <<"v.mp4", "p.jpg">>
  /\ root.cover # NULL
  /\ root.cover[1].name = "p.jpg"

\* the scan in progress or finished lists the requested directory itself
scansEntries ==
  /\ req # NULL
  /\ reqNode \in DOMAIN tree
  /\ ~reqSettings.noDirectory /\ ~reqSettings.coverOnly
  /\ ~nothingToScan(reqSettings)

entryAbs(name) == normalize(join2(reqAbs, <<name>>))

\* the subdirectories of the requested directory, by position in its listing
subdirsIn(n) == {i \in DOMAIN tree[n] : isSubdir(n, tree[n][i])}

\* the ones the exclusion filter rejects
rejectedIn(n) ==
  {i \in subdirsIn(n) :
     excludeDirRun(Config, tree[n][i], normalizeDirPath(req[1].rel), reqAbs).excluded}

\* path p lies strictly below directory q
isBelow(p, q) == Len(p) > Len(q) /\ SubSeq(p, 1, Len(q)) = q

\* no stat, listing or metadata load below a rejected subdirectory, which is
\* in no directories list and adds nothing to media
rejectedUntouched ==
  \A i \in rejectedIn(reqNode) :
    LET name == tree[reqNode][i]
    IN /\ \A e \in io : e.op # "access" => ~isBelow(e.path, entryAbs(name))
       /\ Ok => /\ \A j \in DOMAIN root.directories : root.directories[j].name # name
                /\ \A j \in DOMAIN root.media :
                     \E k \in DOMAIN tree[reqNode] \ subdirsIn(reqNode) :
                       root.media[j].name = tree[reqNode][k]
                /\ root.mediaCount = Len(root.media)
                /\ root.videoCount <= root.mediaCount

\* C12 as stated: a subdirectory the exclusion filter rejects is not visited
\* below, is in no directories list and adds nothing to mediaCount,
\* videoCount and directoryCount of its parent.
C12_ExcludedCountsNothing ==
  scansEntries =>
    /\ rejectedUntouched
    /\ Ok => root.directoryCount = Cardinality(subdirsIn(reqNode) \ rejectedIn(reqNode))

\* C12 amended: as stated for the visits, the directories list, mediaCount
\* and videoCount; directoryCount does count the rejected subdirectory.
C12_ExcludedStillCounted ==
  scansEntries =>
    /\ rejectedUntouched
    /\ Ok => root.directoryCount = Cardinality(subdirsIn(reqNode))

C12_Witness ==
  /\ Ok
  /\ scansEntries
  /\ req[1].rel = <<"">>
  /\ tree[<<>>] = <<"a", "p.jpg">>
  /\ tree[<<"a">>] = <<"p.jpg">>
  /\ rejectedIn(reqNode) = {1}
  /\ root.directories = <<>>
  /\ root.mediaCount = 1
  /\ root.directoryCount = 1

\* the subdirectory entries of n that the loop of a scan with these settings
\* reaches: none when there is nothing to scan, the ones before the first
\* photo when coverOnly ends the loop there, all of them otherwise
reachedSubdirs(n, settings) ==
  IF nothingToScan(settings) THEN {}
  ELSE IF settings.coverOnly /\ ~settings.noPhoto /\ photosIn(n) # {}
       THEN {i \in subdirsIn(n) : i < Least(photosIn(n))}
       ELSE subdirsIn(n)

\* C13 as stated: for every scan, directoryCount is the number of entries of
\* the scanned directory that are subdirectories.
C13_CountsEverySubdir ==
  (Ok /\ reqNode \in DOMAIN tree) =>
    root.directoryCount = Cardinality(subdirsIn(reqNode))

\* C13 amended: directoryCount is the number of subdirectory entries the loop
\* reached, whether they were then excluded, skipped or scanned: all of them,
\* except that it is 0 when noPhoto, noMetaFile and noVideo are all set, and
\* that a coverOnly scan stops counting at its first photo. The same holds
\* for each child snapshot, which is scanned with coverOnly.
C13_CountsReachedSubdirs ==
  (Ok /\ reqNode \in DOMAIN tree) =>
    /\ root.directoryCount = Cardinality(reachedSubdirs(reqNode, reqSettings))
    /\ \A j \in DOMAIN root.directories :
         LET c == root.directories[j]
         IN c.directoryCount =
              Cardinality(reachedSubdirs(Append(reqNode, c.name),
                                         [reqSettings EXCEPT !.coverOnly = TRUE,
                                            !.noPhoto = FALSE, !.noVideo = FALSE,
                                            !.noMetaFile = FALSE]))

C13_Witness ==
  /\ Ok
  /\ reqNode = <<>>
  /\ reqSettings.noDirectory /\ ~reqSettings.coverOnly /\ ~nothingToScan(reqSettings)
  /\ tree[<<>>] = <<"p.jpg", "a">>
  /\ root.directoryCount = 1
  /\ root.directories = <<>>

\* a top-level scan was started and has ended
Finished == stack = <<>> /\ req # NULL /\ outcome.status # "none"

\* C14: for every settings value a scan fails, and returns no snapshot,
\* whenever the stat of the requested path fails or the path is not a
\* directory.
C14_RootMustBeDirectory ==
  (Finished /\ ~isDirectory(reqAbs)) =>
    outcome.status = "error" /\ outcome.directory = NULL

\* the calls a scan makes on the requested directory itself
rootCalls == {[op |-> "stat", path |-> reqAbs], [op |-> "readdir", path |-> reqAbs]}

\* C15: an entry that disappears between the listing and its own stat,
\* listing or cover probe is skipped and never fails the scan: a scan that
\* fails did so on the requested directory itself or, the documented
\* exception, on the metadata of a photo.
C15_EntryFailureIsolated ==
  (Finished /\ outcome.status = "error") =>
    \/ outcome.io \subseteq rootCalls
    \/ \E e \in Failed(outcome.io) : isPhoto(e.path)

\* C16: during a call of scanDirectoryNoMetadata the metadata loader is
\* invoked for no file, and every media entry and every cover of the
\* returned tree, in the root and in every child, has metadata = null.
C16_NoMetadataAnywhere ==
  req # NULL =>
    /\ \A e \in io : e.op \notin {"load", "loadFailed"}
    /\ Ok => \A d \in snapshotsOf(root) :
               /\ \A i \in DOMAIN d.media : d.media[i].metadata = NULL
               /\ d.cover # NULL => d.cover[1].metadata = NULL

\* what the next stage can tell from the outcome of the handler
outcomeKind(r) ==
  IF r.error # NULL THEN "error"
  ELSE IF r.resultPipe = NULL THEN "nothing"
  ELSE IF r.resultPipe[1].directory = NULL /\ r.resultPipe[1].notModified = <<TRUE>>
       THEN "notModified"
  ELSE IF r.resultPipe[1].directory # NULL /\ r.resultPipe[1].notModified = NULL
       THEN "content"
  ELSE "confused"

requestedAbs ==
  join2(ImageFolder, IF call[1].directory = NULL THEN sep ELSE call[1].directory)

\* C17: the four cases give four different outcomes: an error object and no
\* result when the listing threw, a wrapper holding the snapshot with
\* notModified unset when a directory was listed (also an empty one), a
\* wrapper without directory and notModified = true when nothing was
\* modified, and neither result nor error when the path is missing or is not
\* a directory.
C17_OutcomesDistinct ==
  (call # NULL /\ ret # NULL) =>
    /\ ~isDirectory(requestedAbs) <=> ret[1].manager = "notCalled"
    /\ outcomeKind(ret[1]) =
         CASE ret[1].manager = "notCalled" -> "nothing"
           [] ret[1].manager = "null" -> "notModified"
           [] ret[1].manager = "threw" -> "error"
           [] ret[1].manager = "directory" -> "content"
    /\ ret[1].error # NULL => ret[1].resultPipe = NULL

C17_Witness ==
  /\ call # NULL /\ ret # NULL
  /\ tree[<<>>] = <<>>
  /\ outcomeKind(ret[1]) = "content"
  /\ answer.directory[1].mediaCount = 0
  /\ answer.directory[1].directories = <<>>
  /\ answer.directory[1].media = <<>>

\* the back-reference of a cover names the snapshot that holds it
coverBackReference(d) ==
  d.cover # NULL => d.cover[1].directory = <<[path |-> d.path, name |-> d.name]>>

\* C18 as stated: in every snapshot a scan returns, a cover that is set is
\* marked valid and its directory back-reference is the snapshot's own
\* (path, name).
C18_CoverMarkedValid ==
  Ok => \A d \in snapshotsOf(root) :
          /\ d.cover # NULL => d.validCover
          /\ coverBackReference(d)

\* C18 amended: a scan never marks a cover valid, validCover is false in
\* every snapshot it returns, with and without cover; the cover's directory
\* back-reference is the snapshot's own (path, name).
C18_CoverNotMarkedValid ==
  Ok => \A d \in snapshotsOf(root) :
          /\ ~d.validCover
          /\ coverBackReference(d)

C18_Witness ==
  /\ Ok
  /\ root.cover # NULL
  /\ ~root.validCover
  /\ root.cover[1].directory = <<[path |-> root.path, name |-> root.name]>>
  /\ \E c \in childSnapshots(root) : c.cover # NULL /\ ~c.validCover /\ c.name = "a"

\* the positions of the photo and video files directly inside directory n
mediaFilesIn(n) ==
  {i \in DOMAIN tree[n] :
     ~isSubdir(n, tree[n][i]) /\ (isPhoto(<<tree[n][i]>>) \/ isVideo(<<tree[n][i]>>))}

\* a scan of a directory asked for with coverOnly, photos and videos allowed
coverOnlyScan ==
  /\ req # NULL
  /\ reqNode \in DOMAIN tree
  /\ reqSettings.coverOnly
  /\ ~reqSettings.noPhoto /\ ~reqSettings.noVideo /\ Config.videoEnabled

\* entry i of the requested directory was stat-ed
statted(i) == [op |-> "stat", path |-> entryAbs(tree[reqNode][i])] \in io

coverOnlyResult ==
  /\ Len(root.media) <= 1
  /\ root.metaFile = <<>>
  /\ root.directories = <<>>

\* C19 as stated: a coverOnly scan stops right after the first photo or
\* video: no entry after it is stat-ed, media has at most one entry,
\* metaFile and directories are empty.
C19_StopsAtFirstMedia ==
  coverOnlyScan =>
    /\ \A i \in DOMAIN tree[reqNode] :
         (\E k \in mediaFilesIn(reqNode) : k < i) => ~statted(i)
    /\ Ok => coverOnlyResult

\* C19 amended: a coverOnly scan stops right after the first photo; a video
\* is passed over and does not end the loop. No entry after the first photo
\* is stat-ed, every entry up to it is, media holds that photo or nothing,
\* metaFile and directories are empty.
C19_StopsAtFirstPhoto ==
  coverOnlyScan =>
    /\ \A i \in DOMAIN tree[reqNode] :
         (\E k \in photosIn(reqNode) : k < i) => ~statted(i)
    /\ Ok => /\ coverOnlyResult
             /\ \A i \in DOMAIN tree[reqNode] :
                  (\A k \in photosIn(reqNode) : i <= k) => statted(i)
             /\ names(root.media) =
                  IF photosIn(reqNode) = {} THEN <<>>
                  ELSE <<tree[reqNode][Least(photosIn(reqNode))]>>

C19_Witness ==
  /\ Ok
  /\ coverOnlyScan
  /\ tree[reqNode] = <<"p.jpg", "v.mp4">>
  /\ statted(1) /\ ~statted(2)
  /\ names(root.media) = <<"p.jpg">>

\* the directories a scan has listed so far
listed == {e.path : e \in {x \in io : x.op = "readdir"}}

\* at most the requested directory and its direct subdirectories are being
\* scanned or were listed, a coverOnly call has no call above it on the
\* stack, and no child snapshot has children
oneLevel ==
  /\ Len(stack) <= 2
  /\ \A k \in DOMAIN stack : stack[k].settings.coverOnly => k = Len(stack)
  /\ Len(stack) = 2 => stack[2].settings = CoverOnlySettings
  /\ req # NULL =>
       \A p \in listed :
         \/ p = reqAbs
         \/ /\ reqNode \in DOMAIN tree
            /\ \E i \in DOMAIN tree[reqNode] : p = entryAbs(tree[reqNode][i])
  /\ (Ok /\ reqNode \in DOMAIN tree) =>
           /\ Len(root.directories) <= Cardinality(subdirsIn(reqNode))
           /\ \A i, j \in DOMAIN root.directories :
                i # j => root.directories[i].name # root.directories[j].name
           /\ \A c \in childSnapshots(root) : c.directories = <<>>

\* C20: every scan ends (a call in progress can always take its next step,
\* and the steps lead to the end), and its recursion is one level deep: a coverOnly
\* call never calls scanDirectory, so a scan runs at most one call for the
\* requested directory and one per direct subdirectory, lists no grandchild
\* and returns children without children.
C20_TerminatesOneLevel ==
  /\ []oneLevel
  /\ [](stack # <<>> => canStep)
  /\ (stack # <<>>) ~> (stack = <<>> /\ outcome.status \in {"ok", "error"})

C20_Witness ==
  /\ Ok
  /\ reqNode = <<>>
  /\ <<"a", "sub">> \in DOMAIN tree
  /\ tree[<<"a", "sub">>] = <<"p.jpg">>
  /\ Len(root.directories) = 1
  /\ root.directories[1].directoryCount = 1
  /\ root.directories[1].directories = <<>>
  /\ join2(ImageFolder, <<"a">>) \in listed
  /\ join2(ImageFolder, <<"a", "sub">>) \notin listed
  /\ \A e \in io : ~isBelow(e.path, join2(ImageFolder, <<"a", "sub">>))

====
